---- MODULE Spec2Model ----
(***************************************************************************)
(* Model of SphinxTrainingHelper.                                          *)
(*                                                                         *)
(*  pa_record.py             record() and RecordingThread: a foreground    *)
(*                           caller and a background worker sharing the     *)
(*                           _recording flag (specifications Spec and       *)
(*                           FairSpec).                                     *)
(*  make_transcript_files.py generate_files: a single pass over the input  *)
(*                           lines (specification ConvSpec).                *)
(***************************************************************************)
EXTENDS Integers, Sequences, FiniteSets, TLC

(***************************************************************************)
(* Bounds of the model.                                                    *)
(***************************************************************************)
\* chunks the worker may pull before the model stops following the loop
MaxChunks == 3
\* calls of stop_recording a session may see (record() makes one of them)
MaxStopCalls == 3

(***************************************************************************)
(* pa_record.py: state.                                                    *)
(***************************************************************************)
VARIABLES
    args,         \* the parsed arguments (self.args), fixed for a session
    recPc,        \* position of the caller inside record()
    wpc,          \* position of the worker inside RecordingThread.run()
    recording,    \* self._recording
    pOpen,        \* the PyAudio connection p is initialised, not terminated
    streamOpen,   \* the device stream is open
    wfState,      \* the wave file: "none", "open", "closed"
    pulled,       \* chunks returned by stream.read so far, in pull order
    wfData,       \* whole chunks held by the wave file, in file order
    wfPartial,    \* the file ends with a fragment of a chunk
    closeCount,   \* number of times wf.close() has run
    failure,      \* why the worker's run() raised: "none", "stream_open",
                  \*   "wave_open", "read", "write"
    interrupted,  \* a KeyboardInterrupt reached the caller after t.start()
    recStop,      \* record() itself has called t.stop_recording()
    stopAt,       \* the worker's positions at the calls of stop_recording
    stopCalls,    \* number of calls of stop_recording so far
    effective,    \* number of those calls that found the flag set
    beyond,       \* the loop ran past MaxChunks reads: the chunks are no
                  \*   longer followed
    waitEnd,      \* how the caller's read() ended: "none" (not yet), "line",
                  \*   "interrupt", "error"
    lateReads     \* reads the worker began after a call of stop_recording
                  \*   found the flag set (2 stands for two or more)

(***************************************************************************)
(* make_transcript_files.py: state.  A string is a sequence of characters; *)
(* the literals "<s>" and "</s>" and the transcription name are kept as    *)
(* single elements.                                                        *)
(***************************************************************************)
VARIABLES
    inLines,      \* the lines in_file.readlines() returns, from the first
                  \*   line the model follows
    lineBase,     \* non-ignored lines processed before inLines[1]
    cpc,          \* position inside generate_files
    idx,          \* number of lines of inLines the loop has taken
    count,        \* count
    line,         \* line, after line 61
    transcription_id,
    f2,           \* strings written to the transcription file, from the
                  \*   first line the model follows
    f3,           \* strings written to the fileids file, likewise
    open_files,   \* the open_files list: the files opened and not closed
    exitStatus,   \* "running", "ok" (generate_files returned), "exit1"
    out_dir,      \* the kind of path given as --out-dir
    convFailure   \* what made the converter fail: "none", "directory",
                  \*   "open", "read", "write", "close"

convVars == <<inLines, lineBase, cpc, idx, count, line, transcription_id,
              f2, f3, open_files, exitStatus, out_dir, convFailure>>

recVars == <<args, recPc, wpc, recording, pOpen, streamOpen, wfState, pulled,
             wfData, wfPartial, closeCount, failure, interrupted, recStop,
             stopAt, stopCalls, effective, beyond, waitEnd, lateReads>>

\* the state of the program, without the bookkeeping of the caller's calls
progVars == <<args, wpc, recording, pOpen, streamOpen, wfState, pulled,
              wfData, wfPartial, closeCount, failure, beyond>>

(***************************************************************************)
(* The command line.  argparse converts --rate, --channels, --chunk and    *)
(* --device with int and --format with pa_sample_format; nothing else is   *)
(* checked when the arguments are parsed.                                  *)
(***************************************************************************)
\* the keys of the formats dictionary
formats == {"paFloat32", "paInt32", "paInt24", "paInt16", "paInt8",
            "paUInt8", "paCustomFormat"}

\* device indexes the audio host knows in this model
ExistingDevices == {0}

Rates == {0, 8000}
Channels == {0, 1}
ChunkSizes == {0, 1024}
FormatNames == {"paUInt8", "bogus"}
DeviceArgs == {-1, 0, 7}

ArgSets == [rate : Rates, channels : Channels, chunk : ChunkSizes,
            pa_format : FormatNames, device : DeviceArgs]

\* pa_sample_format raises ValueError for a name outside formats; argparse
\* turns it into a usage message and exits
pa_sample_format(s) == s \in formats

\* lines 84-85: a negative index becomes None, the default input device
DefaultDevice(a) == a.device < 0

\* parameters PortAudio refuses when the stream is opened
StreamParamsBad(a) ==
    \/ a.rate <= 0
    \/ a.channels <= 0
    \/ (~DefaultDevice(a) /\ a.device \notin ExistingDevices)

(***************************************************************************)
(* record(): the foreground caller.                                        *)
(***************************************************************************)
callerVars == <<recPc, interrupted, recStop, waitEnd>>
workerVars == <<wpc, pOpen, streamOpen, wfState, pulled, wfData, wfPartial,
                closeCount, failure, beyond, lateReads>>
stopVars == <<stopAt, stopCalls, effective>>

\* a stop_recording that flips the flag
stop_recording_toggle(r) == ~r

\* self._recording after stop_recording()
stop_recording(r) == FALSE

\* one call of t.stop_recording(), with the bookkeeping of the call
CallStop ==
    /\ recording' = stop_recording(recording)
    /\ stopAt' = stopAt \cup {wpc}
    /\ stopCalls' = stopCalls + 1
    /\ effective' = IF recording THEN effective + 1 ELSE effective

\* line 122: t = RecordingThread(args); parse_args exits with a usage
\* message when --format is not a key of formats
Construct ==
    /\ recPc = "construct"
    /\ recPc' = IF pa_sample_format(args.pa_format) THEN "start" ELSE "exited"
    /\ UNCHANGED <<args, recording, interrupted, recStop, workerVars, stopVars>>
    /\ UNCHANGED convVars
    /\ UNCHANGED waitEnd

\* line 123: t.start() returns as soon as the thread is running
Start ==
    /\ recPc = "start"
    /\ recPc' = "bind"
    /\ wpc' = "pyaudio"
    /\ UNCHANGED <<args, recording, interrupted, recStop, pOpen, streamOpen,
                   wfState, pulled, wfData, wfPartial, closeCount, failure,
                   beyond, stopVars>>
    /\ UNCHANGED convVars
    /\ UNCHANGED waitEnd
    /\ UNCHANGED lateReads

\* lines 124-127: read = raw_input, or input under Python 3
BindRead ==
    /\ recPc = "bind"
    /\ recPc' = "read"
    /\ UNCHANGED <<args, recording, interrupted, recStop, workerVars, stopVars>>
    /\ UNCHANGED convVars
    /\ UNCHANGED waitEnd

\* line 132: read() returns a line: the else clause is next
ReadLine ==
    /\ recPc = "read"
    /\ recPc' = "else_stop"
    /\ UNCHANGED <<args, recording, interrupted, recStop, workerVars, stopVars>>
    /\ UNCHANGED convVars
    /\ waitEnd' = "line"

\* line 132: read() raises KeyboardInterrupt: the except clause is next
ReadInterrupt ==
    /\ recPc = "read"
    /\ recPc' = "except_stop"
    /\ interrupted' = TRUE
    /\ UNCHANGED <<args, recording, recStop, workerVars, stopVars>>
    /\ UNCHANGED convVars
    /\ waitEnd' = "interrupt"

\* line 132: read() raises EOFError (or any other error), which no clause
\* of the try statement catches
ReadEOF ==
    /\ recPc = "read"
    /\ recPc' = "raised"
    /\ UNCHANGED <<args, recording, interrupted, recStop, workerVars, stopVars>>
    /\ UNCHANGED convVars
    /\ waitEnd' = "error"

\* a KeyboardInterrupt delivered to the caller outside read(): between
\* t.start() and the try statement of line 131 (lines 124-127 catch only
\* NameError), or inside the except or else clause before its call
InterruptOutsideRead ==
    /\ recPc \in {"bind", "except_stop", "else_stop"}
    /\ recPc' = "raised"
    /\ interrupted' = TRUE
    /\ UNCHANGED <<args, recording, recStop, workerVars, stopVars>>
    /\ UNCHANGED convVars
    /\ UNCHANGED waitEnd

\* line 134: t.stop_recording() in the except clause; record() returns
StopExcept ==
    /\ recPc = "except_stop"
    /\ CallStop
    /\ recStop' = TRUE
    /\ recPc' = "returned"
    /\ UNCHANGED <<args, interrupted, workerVars>>
    /\ UNCHANGED convVars
    /\ UNCHANGED waitEnd

\* line 136: t.stop_recording() in the else clause; record() returns
StopElse ==
    /\ recPc = "else_stop"
    /\ CallStop
    /\ recStop' = TRUE
    /\ recPc' = "returned"
    /\ UNCHANGED <<args, interrupted, workerVars>>
    /\ UNCHANGED convVars
    /\ UNCHANGED waitEnd

\* a further call of stop_recording() on the same thread object, at any
\* later point of the session
ExtraStop ==
    /\ stopCalls >= 1
    /\ stopCalls < MaxStopCalls
    /\ CallStop
    /\ UNCHANGED <<args, callerVars, workerVars>>
    /\ UNCHANGED convVars

(***************************************************************************)
(* RecordingThread.run(): the background worker.  An exception that run()  *)
(* does not catch ends the thread where it is raised: wpc becomes "died"   *)
(* and nothing after the raising statement runs.                           *)
(***************************************************************************)
callVars == <<recPc, interrupted, recStop, waitEnd, stopVars>>

\* line 89: p = PyAudio()
InitPyAudio ==
    /\ wpc = "pyaudio"
    /\ pOpen' = TRUE
    /\ wpc' = "open_stream"
    /\ UNCHANGED <<args, recording, streamOpen, wfState, pulled, wfData,
                   wfPartial, closeCount, failure, beyond, callVars>>
    /\ UNCHANGED convVars
    /\ UNCHANGED lateReads

\* lines 90-95: stream = p.open(...) succeeds
OpenStreamOk ==
    /\ wpc = "open_stream"
    /\ ~StreamParamsBad(args)
    /\ streamOpen' = TRUE
    /\ wpc' = "open_wave"
    /\ UNCHANGED <<args, recording, pOpen, wfState, pulled, wfData, wfPartial,
                   closeCount, failure, beyond, callVars>>
    /\ UNCHANGED convVars
    /\ UNCHANGED lateReads

\* lines 90-95: p.open(...) raises (bad parameters, or the device is busy
\* or gone)
OpenStreamFail ==
    /\ wpc = "open_stream"
    /\ failure' = "stream_open"
    /\ wpc' = "died"
    /\ UNCHANGED <<args, recording, pOpen, streamOpen, wfState, pulled, wfData,
                   wfPartial, closeCount, beyond, callVars>>
    /\ UNCHANGED convVars
    /\ UNCHANGED lateReads

\* lines 98-101: wf = wave.open(WAVE_OUTPUT_FILENAME, 'wb') and the header
\* fields
OpenWaveOk ==
    /\ wpc = "open_wave"
    /\ wfState' = "open"
    /\ wpc' = "set_recording"
    /\ UNCHANGED <<args, recording, pOpen, streamOpen, pulled, wfData,
                   wfPartial, closeCount, failure, beyond, callVars>>
    /\ UNCHANGED convVars
    /\ UNCHANGED lateReads

\* line 98: wave.open raises (the path cannot be opened for writing)
OpenWaveFail ==
    /\ wpc = "open_wave"
    /\ failure' = "wave_open"
    /\ wpc' = "died"
    /\ UNCHANGED <<args, recording, pOpen, streamOpen, wfState, pulled, wfData,
                   wfPartial, closeCount, beyond, callVars>>
    /\ UNCHANGED convVars
    /\ UNCHANGED lateReads

\* line 104: self._recording = True
SetRecording ==
    /\ wpc = "set_recording"
    /\ recording' = TRUE
    /\ wpc' = "loop"
    /\ UNCHANGED <<args, pOpen, streamOpen, wfState, pulled, wfData, wfPartial,
                   closeCount, failure, beyond, callVars>>
    /\ UNCHANGED convVars
    /\ UNCHANGED lateReads

\* line 105: while self._recording
LoopTest ==
    /\ wpc = "loop"
    /\ wpc' = IF recording THEN "read" ELSE "stop_stream"
    /\ UNCHANGED <<args, recording, pOpen, streamOpen, wfState, pulled, wfData,
                   wfPartial, closeCount, failure, beyond, callVars>>
    /\ UNCHANGED convVars
    /\ UNCHANGED lateReads

\* the chunk the device hands out after the chunks in p: the chunks are
\* numbered in the order the device produces them
NextChunk(p) == Len(p) + 1

\* a worker that looks at the flag r again once the read has returned
AfterReadObserve(r) == IF r THEN "write" ELSE "stop_stream"

\* line 106: the chunk read is handed to wf.writeframes, whatever the flag r
AfterRead(r) == "write"

\* line 106: stream.read(CHUNK) returns the next chunk
ReadOk ==
    /\ wpc = "read"
    /\ IF Len(pulled) < MaxChunks /\ ~beyond
       THEN /\ pulled' = Append(pulled, NextChunk(pulled))
            /\ UNCHANGED beyond
       ELSE /\ beyond' = TRUE
            /\ UNCHANGED pulled
    /\ wpc' = AfterRead(recording)
    /\ UNCHANGED <<args, recording, pOpen, streamOpen, wfState, wfData,
                   wfPartial, closeCount, failure, callVars>>
    /\ UNCHANGED convVars
    /\ lateReads' = IF effective >= 1 /\ lateReads < 2 THEN lateReads + 1
                    ELSE lateReads

\* line 106: stream.read(CHUNK) raises
ReadFail ==
    /\ wpc = "read"
    /\ failure' = "read"
    /\ wpc' = "died"
    /\ UNCHANGED <<args, recording, pOpen, streamOpen, wfState, pulled, wfData,
                   wfPartial, closeCount, beyond, callVars>>
    /\ UNCHANGED convVars
    /\ lateReads' = IF effective >= 1 /\ lateReads < 2 THEN lateReads + 1
                    ELSE lateReads

\* a writeframes that appends the first chunk of the session again
writeframes_first(data, p) == Append(data, p[1])

\* the file's chunks after writeframes appended the chunk just read
writeframes(data, p) == Append(data, p[Len(p)])

\* line 106: wf.writeframes(...) appends the chunk just read
WriteOk ==
    /\ wpc = "write"
    /\ wfData' = IF beyond THEN wfData ELSE writeframes(wfData, pulled)
    /\ wpc' = "sleep"
    /\ UNCHANGED <<args, recording, pOpen, streamOpen, wfState, pulled,
                   wfPartial, closeCount, failure, beyond, callVars>>
    /\ UNCHANGED convVars
    /\ UNCHANGED lateReads

\* line 106: wf.writeframes(...) raises; the file may be left with a part
\* of the chunk
WriteFail ==
    /\ wpc = "write"
    /\ \E part \in BOOLEAN : wfPartial' = part
    /\ failure' = "write"
    /\ wpc' = "died"
    /\ UNCHANGED <<args, recording, pOpen, streamOpen, wfState, pulled, wfData,
                   closeCount, beyond, callVars>>
    /\ UNCHANGED convVars
    /\ UNCHANGED lateReads

\* line 107: time.sleep(0.05)
Sleep ==
    /\ wpc = "sleep"
    /\ wpc' = "loop"
    /\ UNCHANGED <<args, recording, pOpen, streamOpen, wfState, pulled, wfData,
                   wfPartial, closeCount, failure, beyond, callVars>>
    /\ UNCHANGED convVars
    /\ UNCHANGED lateReads

\* lines 111-112: stream.stop_stream(); stream.close()
CloseStream ==
    /\ wpc = "stop_stream"
    /\ streamOpen' = FALSE
    /\ wpc' = "close_wave"
    /\ UNCHANGED <<args, recording, pOpen, wfState, pulled, wfData, wfPartial,
                   closeCount, failure, beyond, callVars>>
    /\ UNCHANGED convVars
    /\ UNCHANGED lateReads

\* line 113: wf.close()
CloseWave ==
    /\ wpc = "close_wave"
    /\ wfState' = "closed"
    /\ closeCount' = closeCount + 1
    /\ wpc' = "terminate"
    /\ UNCHANGED <<args, recording, pOpen, streamOpen, pulled, wfData,
                   wfPartial, failure, beyond, callVars>>
    /\ UNCHANGED convVars
    /\ UNCHANGED lateReads

\* line 114: p.terminate(); run() returns
Terminate ==
    /\ wpc = "terminate"
    /\ pOpen' = FALSE
    /\ wpc' = "done"
    /\ UNCHANGED <<args, recording, streamOpen, wfState, pulled, wfData,
                   wfPartial, closeCount, failure, beyond, callVars>>
    /\ UNCHANGED convVars
    /\ UNCHANGED lateReads

(***************************************************************************)
(* The session.                                                            *)
(***************************************************************************)
RecInit ==
    /\ args \in ArgSets
    /\ recPc = "construct"
    /\ wpc = "unstarted"
    /\ recording = FALSE
    /\ pOpen = FALSE
    /\ streamOpen = FALSE
    /\ wfState = "none"
    /\ pulled = << >>
    /\ wfData = << >>
    /\ wfPartial = FALSE
    /\ closeCount = 0
    /\ failure = "none"
    /\ interrupted = FALSE
    /\ recStop = FALSE
    /\ stopAt = {}
    /\ stopCalls = 0
    /\ effective = 0
    /\ beyond = FALSE
    /\ waitEnd = "none"
    /\ lateReads = 0

CallerNext ==
    \/ Construct
    \/ Start
    \/ BindRead
    \/ ReadLine
    \/ ReadInterrupt
    \/ ReadEOF
    \/ InterruptOutsideRead
    \/ StopExcept
    \/ StopElse

WorkerNext ==
    \/ InitPyAudio
    \/ OpenStreamOk
    \/ OpenStreamFail
    \/ OpenWaveOk
    \/ OpenWaveFail
    \/ SetRecording
    \/ LoopTest
    \/ ReadOk
    \/ ReadFail
    \/ WriteOk
    \/ WriteFail
    \/ Sleep
    \/ CloseStream
    \/ CloseWave
    \/ Terminate

\* the converter before it is run
ConvIdle ==
    /\ inLines = << >>
    /\ lineBase = 0
    /\ cpc = "idle"
    /\ idx = 0
    /\ count = 1
    /\ line = << >>
    /\ transcription_id = << >>
    /\ f2 = << >>
    /\ f3 = << >>
    /\ open_files = << >>
    /\ exitStatus = "running"
    /\ out_dir = "none"
    /\ convFailure = "none"

vars == <<recVars, convVars>>

Init == RecInit /\ ConvIdle

Next == CallerNext \/ WorkerNext \/ ExtraStop

Spec == Init /\ [][Next]_vars

\* both threads keep being scheduled
FairSpec == Spec /\ WF_vars(CallerNext) /\ WF_vars(WorkerNext)

(***************************************************************************)
(* make_transcript_files.py: generate_files.                               *)
(***************************************************************************)
\* lines of input the model follows
MaxLines == 3

\* the characters str.strip() removes
Whitespace == {" ", "\t", "\n", "\r"}

\* lines as readlines() returns them
InputLines ==
    { <<"\n">>,
      <<" ", "\t", "\n">>,
      <<"#", "a", "\n">>,
      <<" ", "#", "\n">>,
      <<"a", "\n">>,
      <<"a", " ", "b", "\n">>,
      <<" ", "a", " ", "\n">>,
      <<"a", " ", "#", "b", "\n">>,
      <<"a", "#", "b", "#", "\n">>,
      <<"\t", "b">> }

\* numbers of non-ignored lines already processed when the model starts to
\* follow the loop
LineBases == {0, 8, 9998}

\* line 27: the transcription name, the input file's name minus extension
name == <<"demo">>

\* str.lstrip()
RECURSIVE lstrip(_)
lstrip(s) ==
    IF s # << >> /\ Head(s) \in Whitespace THEN lstrip(Tail(s)) ELSE s

\* str.rstrip()
RECURSIVE rstrip(_)
rstrip(s) ==
    IF s # << >> /\ s[Len(s)] \in Whitespace
    THEN rstrip(SubSeq(s, 1, Len(s) - 1))
    ELSE s

\* str.strip()
strip(s) == rstrip(lstrip(s))

\* s.split("#")[0]: the part of s before its first '#'
RECURSIVE split_first(_)
split_first(s) ==
    IF s = << >> \/ Head(s) = "#" THEN << >>
    ELSE <<Head(s)>> \o split_first(Tail(s))

\* line 61: line.strip().split("#")[0]
strip_comment(l) == split_first(strip(l))

DigitChars == <<"0", "1", "2", "3", "4", "5", "6", "7", "8", "9">>

\* the decimal digits of n, most significant first
RECURSIVE digits(_)
digits(n) ==
    IF n < 10 THEN <<DigitChars[n + 1]>>
    ELSE digits(n \div 10) \o digits(n % 10)

\* "%0wd" % n
RECURSIVE zero_pad(_, _)
zero_pad(d, w) == IF Len(d) < w THEN zero_pad(<<"0">> \o d, w) ELSE d

\* "%03d" % n
format_id_3(n) == name \o <<"_">> \o zero_pad(digits(n), 3)

\* line 68: "%s_%04d" % (name, count)
format_id(n) == name \o <<"_">> \o zero_pad(digits(n), 4)

\* line 72: "<s> %s </s> (%s)\n" % (line.strip(), transcription_id)
format_transcription(l, id) ==
    <<"<s>", " ">> \o strip(l) \o <<" ", "</s>", " ", "(">> \o id \o <<")", "\n">>

\* a fileids line that leaves the number out
format_fileid_name(id) == name \o <<"\n">>

\* line 73: "%s\n" % transcription_id
format_fileid(id) == id \o <<"\n">>

\* close_files(): pop and close until open_files is empty
close_files(files) == << >>

\* close_files() when closing files[n] raises: the files above it have been
\* popped and closed, files[n] has been popped, the files below it are
\* still in the list, open
close_files_raising(files, n) == SubSeq(files, 1, n - 1)

\* a file object that may hold written text not yet flushed, so that its
\* close() can raise
Unflushed(f) ==
    \/ f = "f2" /\ (f2 # << >> \/ lineBase > 0)
    \/ f = "f3" /\ (f3 # << >> \/ lineBase > 0)

\* a directory() that does not test os.path.isdir
directory_no_isdir(kind) ==
    CASE kind = "none" -> "none"
      [] kind = "missing" -> "mkdir"
      [] OTHER -> "path"

\* lines 98-124: directory(path) by the kind of path: no path given
\* (returns None), an existing directory (returns path), an existing path
\* that is no directory (usage, message, exit(1)), a missing path (mkdir)
directory(kind) ==
    CASE kind = "none" -> "none"
      [] kind = "dir" -> "path"
      [] kind = "file" -> "exit"
      [] kind = "missing" -> "mkdir"

\* the kinds of --out-dir argument
OutDirKinds == {"none", "dir", "file", "missing"}

\* lines 87-134 and 26-29: parse_args() opens the input file and runs
\* directory() on --out-dir; then generate_files is entered
ParseArgs ==
    /\ cpc = "parse_args"
    /\ \/ /\ directory(out_dir) \in {"none", "path"}
          /\ cpc' = "open_transcription"
          /\ open_files' = <<"in">>
          /\ UNCHANGED <<out_dir, exitStatus, convFailure>>
       \/ /\ directory(out_dir) = "mkdir"
          /\ \/ /\ out_dir' = "dir"
                /\ cpc' = "open_transcription"
                /\ open_files' = <<"in">>
                /\ UNCHANGED <<exitStatus, convFailure>>
             \/ /\ cpc' = "exited"
                /\ exitStatus' = "exit1"
                /\ convFailure' = "directory"
                /\ UNCHANGED <<out_dir, open_files>>
       \/ /\ directory(out_dir) = "exit"
          /\ cpc' = "exited"
          /\ exitStatus' = "exit1"
          /\ convFailure' = "directory"
          /\ UNCHANGED <<out_dir, open_files>>
    /\ UNCHANGED <<inLines, lineBase, idx, count, line, transcription_id, f2, f3>>
    /\ UNCHANGED recVars

\* close_files() followed by what the caller does next: all files close and
\* the caller goes on to pc with the given status; or the close of an
\* unflushed output file raises IOError, which nothing catches usefully
\* (line 84 is outside the try statement; inside a handler the IOError
\* reaches lines 78-79, where print_err fails on the stderr that the first
\* print_err closed): the program ends with status 1 and the text not yet
\* flushed may be lost
CloseFiles(pc, status, cause) ==
    \/ /\ open_files' = close_files(open_files)
       /\ cpc' = pc
       /\ exitStatus' = status
       /\ convFailure' = cause
       /\ UNCHANGED <<f2, f3>>
    \/ \E n \in 1..Len(open_files) :
          /\ Unflushed(open_files[n])
          /\ open_files' = close_files_raising(open_files, n)
          /\ cpc' = "exited"
          /\ exitStatus' = "exit1"
          /\ convFailure' = "close"
          /\ IF open_files[n] = "f2"
             THEN /\ \E k \in 0..Len(f2) : f2' = SubSeq(f2, 1, k)
                  /\ UNCHANGED f3
             ELSE /\ \E k \in 0..Len(f3) : f3' = SubSeq(f3, 1, k)
                  /\ UNCHANGED f2

\* lines 34-42, 49, 53: open the transcription file
OpenTranscription ==
    /\ cpc = "open_transcription"
    /\ \/ /\ open_files' = Append(open_files, "f2")
          /\ cpc' = "open_fileids"
          /\ UNCHANGED <<exitStatus, convFailure, f2, f3>>
       \/ CloseFiles("exited", "exit1", "open")
    /\ UNCHANGED <<inLines, lineBase, idx, count, line, transcription_id, out_dir>>
    /\ UNCHANGED recVars

\* lines 34-42, 50, 54: open the fileids file
OpenFileids ==
    /\ cpc = "open_fileids"
    /\ \/ /\ open_files' = Append(open_files, "f3")
          /\ cpc' = "readlines"
          /\ UNCHANGED <<exitStatus, convFailure, f2, f3>>
       \/ CloseFiles("exited", "exit1", "open")
    /\ UNCHANGED <<inLines, lineBase, idx, count, line, transcription_id, out_dir>>
    /\ UNCHANGED recVars

\* lines 58-59: count = 1; in_file.readlines() returns, or raises IOError
\* (lines 78-81)
ReadLines ==
    /\ cpc = "readlines"
    /\ \/ /\ cpc' = "for"
          /\ UNCHANGED <<open_files, exitStatus, convFailure, f2, f3>>
       \/ CloseFiles("exited", "exit1", "read")
    /\ UNCHANGED <<inLines, lineBase, idx, count, line, transcription_id, out_dir>>
    /\ UNCHANGED recVars

\* line 61 with the strip left out
split_only(l) == split_first(l)

\* the loop variable after line 61
NextLine(l) == strip_comment(l)

\* the count after a line that is written (line 69)
NextCount(c) == c + 1

\* lines 59-69: take the next line; skip it when it is empty after line 61,
\* else build its id and advance the count
ForLine ==
    /\ cpc = "for"
    /\ idx < Len(inLines)
    /\ idx' = idx + 1
    /\ line' = NextLine(inLines[idx + 1])
    /\ IF line' = << >>
       THEN /\ cpc' = "for"
            /\ UNCHANGED <<count, transcription_id>>
       ELSE /\ transcription_id' = format_id(count)
            /\ count' = NextCount(count)
            /\ cpc' = "write_transcription"
    /\ UNCHANGED <<inLines, lineBase, f2, f3, open_files, exitStatus,
                   convFailure, out_dir>>
    /\ UNCHANGED recVars

\* line 72: f2.write(...), or IOError (lines 74-77)
WriteTranscription ==
    /\ cpc = "write_transcription"
    /\ \/ /\ f2' = Append(f2, format_transcription(line, transcription_id))
          /\ cpc' = "write_fileid"
          /\ UNCHANGED <<open_files, exitStatus, convFailure, f3>>
       \/ CloseFiles("exited", "exit1", "write")
    /\ UNCHANGED <<inLines, lineBase, idx, count, line, transcription_id, out_dir>>
    /\ UNCHANGED recVars

\* line 73: f3.write(...), or IOError (lines 74-77)
WriteFileid ==
    /\ cpc = "write_fileid"
    /\ \/ /\ f3' = Append(f3, format_fileid(transcription_id))
          /\ cpc' = "for"
          /\ UNCHANGED <<open_files, exitStatus, convFailure, f2>>
       \/ CloseFiles("exited", "exit1", "write")
    /\ UNCHANGED <<inLines, lineBase, idx, count, line, transcription_id, out_dir>>
    /\ UNCHANGED recVars

\* line 84: the loop is over; close_files() and return
Finish ==
    /\ cpc = "for"
    /\ idx = Len(inLines)
    /\ CloseFiles("done", "ok", "none")
    /\ UNCHANGED <<inLines, lineBase, idx, count, line, transcription_id, out_dir>>
    /\ UNCHANGED recVars

\* sequences over S of length at most n
SeqsUpTo(S, n) == UNION {[1..k -> S] : k \in 0..n}

\* the program starts at parse_args(); with lineBase > 0 the model starts
\* at a later round of the loop, lineBase written lines in
ConvInit ==
    /\ inLines \in SeqsUpTo(InputLines, MaxLines)
    /\ lineBase \in LineBases
    /\ out_dir \in IF lineBase = 0 THEN OutDirKinds ELSE {"none"}
    /\ convFailure = "none"
    /\ cpc = IF lineBase = 0 THEN "parse_args" ELSE "for"
    /\ idx = 0
    /\ count = lineBase + 1
    /\ line = << >>
    /\ transcription_id = << >>
    /\ f2 = << >>
    /\ f3 = << >>
    /\ open_files = IF lineBase = 0 THEN << >> ELSE <<"in", "f2", "f3">>
    /\ exitStatus = "running"

\* record() is not run
RecIdle ==
    /\ args = [rate |-> 8000, channels |-> 1, chunk |-> 1024,
               pa_format |-> "paUInt8", device |-> -1]
    /\ recPc = "construct"
    /\ wpc = "unstarted"
    /\ recording = FALSE
    /\ pOpen = FALSE
    /\ streamOpen = FALSE
    /\ wfState = "none"
    /\ pulled = << >>
    /\ wfData = << >>
    /\ wfPartial = FALSE
    /\ closeCount = 0
    /\ failure = "none"
    /\ interrupted = FALSE
    /\ recStop = FALSE
    /\ stopAt = {}
    /\ stopCalls = 0
    /\ effective = 0
    /\ beyond = FALSE
    /\ waitEnd = "none"
    /\ lateReads = 0

ConvNext ==
    \/ ParseArgs
    \/ OpenTranscription
    \/ OpenFileids
    \/ ReadLines
    \/ ForLine
    \/ WriteTranscription
    \/ WriteFileid
    \/ Finish

ConvStart == RecIdle /\ ConvInit

ConvSpec == ConvStart /\ [][ConvNext]_vars

(***************************************************************************)
(* Vocabulary of the claims.                                               *)
(***************************************************************************)
\* Closed: run() has returned after releasing the stream, the file and the
\* audio connection
Closed == wpc = "done" /\ wfState = "closed" /\ ~streamOpen /\ ~pOpen

\* the worker's run() ended with an exception it did not catch
WorkerDied == wpc = "died"

\* record() has handed control back to its caller
RecordLeft == recPc \in {"returned", "raised"}

OpenFailed == failure \in {"stream_open", "wave_open"}

\* a configuration the specification's configure() refuses
InvalidConfiguration(a) ==
    \/ a.rate <= 0
    \/ a.channels <= 0
    \/ a.chunk <= 0
    \/ a.pa_format \notin formats
    \/ (a.device >= 0 /\ a.device \notin ExistingDevices)

\* the step is a call of stop_recording
StopStep == stopCalls' # stopCalls

(***************************************************************************)
(* C1.  After start, once record() has requested the stop, the session     *)
(* eventually reaches Closed with a file of whole chunks (unless a device  *)
(* or file operation failed), whatever the interleaving of the caller and  *)
(* the worker.  Checked under FairSpec.                                    *)
(***************************************************************************)
C1_StopReachesClosed ==
    recStop ~> ((Closed /\ ~wfPartial) \/ failure # "none")

(***************************************************************************)
(* C2.  When a device read has failed and the worker has ended, the output *)
(* file is closed, holding the chunks written before the failure, and the  *)
(* device stream is released.                                              *)
(***************************************************************************)
C2_ReadFailureFinalizes ==
    (WorkerDied /\ failure = "read") =>
        (wfState = "closed" /\ ~streamOpen /\ wfData = pulled)

C4_FileEqualsPulled == ~beyond => (wfData = pulled /\ ~wfPartial)

(***************************************************************************)
(* C4 as amended.  In every state the file's chunks are a prefix, in pull  *)
(* order and without repetition, of the chunks pulled so far; the only     *)
(* chunk that can be missing is the last one pulled, and only while its    *)
(* write is in flight or after its write failed (which may leave a         *)
(* fragment of it).  The chunks are followed for the first MaxChunks reads *)
(* of a session.                                                           *)
(***************************************************************************)
C4_FileIsPulledPrefix ==
    ~beyond =>
        /\ Len(wfData) <= Len(pulled)
        /\ \A i \in 1..Len(wfData) : wfData[i] = pulled[i] /\ wfData[i] = i
        /\ Len(pulled) - Len(wfData) <= 1
        /\ Len(wfData) < Len(pulled) => (wpc = "write" \/ failure = "write")
        /\ wfPartial => (failure = "write" /\ Len(wfData) < Len(pulled))

\* two chunks are in the file and a third has been pulled, not yet written
C4_Witness ==
    /\ wpc = "write"
    /\ Len(wfData) = 2
    /\ Len(pulled) = 3

(***************************************************************************)
(* C5.  An interrupt that reaches the caller at any point after the worker *)
(* was started makes record() call stop_recording before it is left.       *)
(***************************************************************************)
C5_InterruptStops == (interrupted /\ RecordLeft) => recStop

(***************************************************************************)
(* C6.  record() does not hand control back after its stop request until   *)
(* the session is Closed.                                                  *)
(***************************************************************************)
C6_ReturnAfterClosed == recPc = "returned" => Closed

(***************************************************************************)
(* C7.  When opening the stream or the file failed, the audio connection   *)
(* and the device stream opened before it are released by the time the     *)
(* failure ends the worker.                                                *)
(***************************************************************************)
C7_OpenFailureReleases == (WorkerDied /\ OpenFailed) => (~pOpen /\ ~streamOpen)

(***************************************************************************)
(* C8.  Open-time errors reach the caller from start: the caller is never  *)
(* in its foreground wait with a session whose open failed.                *)
(***************************************************************************)
C8_OpenErrorsSynchronous == recPc = "read" => ~OpenFailed

(***************************************************************************)
(* C9.  An invalid configuration is refused before the worker starts, and  *)
(* neither the stream nor the file is opened for it.                       *)
(***************************************************************************)
C9_InvalidConfigRejected ==
    InvalidConfiguration(args) =>
        (wpc = "unstarted" /\ ~streamOpen /\ wfState = "none")

(***************************************************************************)
(* Vocabulary of the converter's claims, stated on the input text itself.  *)
(***************************************************************************)
\* the candidates for the trimmed text of input line l: a non-empty piece
\* l[i..j] without '#' that starts and ends with a non-blank character, is
\* preceded by blanks only, and is followed by blanks up to the line's end
\* or up to a '#'
Texts(l) ==
    { SubSeq(l, i, j) : <<i, j>> \in
        { ij \in (1..Len(l)) \X (1..Len(l)) :
            /\ ij[1] <= ij[2]
            /\ \A k \in 1..(ij[1] - 1) : l[k] \in Whitespace
            /\ l[ij[1]] \notin Whitespace
            /\ l[ij[2]] \notin Whitespace
            /\ \A k \in ij[1]..ij[2] : l[k] # "#"
            /\ \E m \in (ij[2] + 1)..(Len(l) + 1) :
                  /\ \A k \in (ij[2] + 1)..(m - 1) : l[k] \in Whitespace
                  /\ (m = Len(l) + 1 \/ l[m] = "#") } }

\* an input line that produces output
NotIgnored(l) == Texts(l) # {}

\* the number a digit string denotes
RECURSIVE DecimalValue(_)
DecimalValue(d) ==
    IF d = << >> THEN 0
    ELSE 10 * DecimalValue(SubSeq(d, 1, Len(d) - 1))
         + (CHOOSE v \in 0..9 : DigitChars[v + 1] = d[Len(d)])

\* d is n in decimal, zero-padded to at least 4 digits
IsPadded4(d, n) ==
    /\ Len(d) >= 4
    /\ \A k \in 1..Len(d) : \E v \in 0..9 : DigitChars[v + 1] = d[k]
    /\ DecimalValue(d) = n
    /\ (Len(d) > 4 => d[1] # "0")

\* the digits of a fileids line: what lies between "<name>_" and the newline
IdDigits(s) == SubSeq(s, Len(name) + 2, Len(s) - 1)

(***************************************************************************)
(* C10.  Between two rounds of the loop and at normal completion, the      *)
(* transcription and fileids outputs hold one line per non-ignored input   *)
(* line taken so far, in input order: for the i-th such line, with trimmed *)
(* text T, '<s> T </s> (<name>_NNNN)' and '<name>_NNNN', where NNNN is i   *)
(* in decimal, zero-padded to at least 4 digits.                           *)
(***************************************************************************)
C10_OutputLines ==
    cpc \in {"for", "done"} =>
        LET kept == SelectSeq(SubSeq(inLines, 1, idx), NotIgnored) IN
        /\ Len(f2) = Len(kept)
        /\ Len(f3) = Len(kept)
        /\ \A k \in 1..Len(kept) :
              LET d == IdDigits(f3[k]) IN
              /\ IsPadded4(d, lineBase + k)
              /\ f3[k] = name \o <<"_">> \o d \o <<"\n">>
              /\ \E T \in Texts(kept[k]) :
                    f2[k] = <<"<s>", " ">> \o T \o <<" ", "</s>", " ", "(">>
                            \o name \o <<"_">> \o d \o <<")", "\n">>

\* a run over three lines, the second one ignored and the first with an
\* inline comment, numbered 9999 and 10000, has completed
C10_Witness ==
    /\ cpc = "done"
    /\ lineBase = 9998
    /\ Len(inLines) = 3
    /\ inLines[1] = <<"a", " ", "#", "b", "\n">>
    /\ ~NotIgnored(inLines[2])
    /\ Len(f2) = 2
    /\ Len(f3) = 2

(***************************************************************************)
(* C14.  The capture state only moves forward: once a stop has been        *)
(* requested the flag is never set again (no return to Recording), and     *)
(* Closed is terminal.                                                     *)
(***************************************************************************)
C14_ForwardOnly ==
    [][/\ (stopCalls >= 1 /\ ~recording) => ~recording'
       /\ Closed => Closed']_vars

(***************************************************************************)
(* C15.  The worker looks at the flag only between chunk iterations:       *)
(* finalization is entered from the loop test alone, never with a chunk    *)
(* read and not written, so whenever the output file is closed it holds    *)
(* every chunk pulled, whole.                                              *)
(***************************************************************************)
C15_ClosedFileWholeChunks ==
    (wpc \in {"stop_stream", "close_wave", "terminate", "done"}
        \/ wfState = "closed") =>
        /\ ~wfPartial
        /\ ~beyond => wfData = pulled
        /\ stopCalls >= 1

\* the stop arrived while a chunk was in flight; the file was then closed
\* with that chunk in it
C15_Witness ==
    /\ wfState = "closed"
    /\ stopAt \cap {"read", "write"} # {}
    /\ effective = 1
    /\ Len(wfData) = 2

C17_WriteFailureFinalizes ==
    (WorkerDied /\ failure = "write") =>
        (wfState = "closed" /\ ~streamOpen /\ ~pOpen)

(***************************************************************************)
(* C18.  Whenever the foreground wait has ended, for whatever reason, and  *)
(* record() has been left, record() has called stop_recording.             *)
(***************************************************************************)
C18_WaitEndStops == (waitEnd # "none" /\ RecordLeft) => recStop


\* l is blank or a comment: every character before its first '#' (every
\* character, when it has none) is whitespace
BlankOrComment(l) ==
    \A k \in 1..Len(l) :
        (\A j \in 1..(k - 1) : l[j] # "#") => l[k] \in Whitespace \cup {"#"}

\* the lines of ls that are not blank and not comments
Sentences(ls) == SelectSeq(ls, LAMBDA l : ~BlankOrComment(l))

(***************************************************************************)
(* C11.  An input line is ignored exactly when it is blank or a comment:   *)
(* between two rounds of the loop and at normal completion each output     *)
(* holds as many lines as there are non-blank, non-comment lines among the *)
(* input lines taken so far, and the numbering has advanced by that many;  *)
(* a line reaches the writes only if it is no blank and no comment; an     *)
(* input of only blank and comment lines that is closed without an error   *)
(* ends with two empty outputs and a normal return.                        *)
(***************************************************************************)
C11_IgnoredLines ==
    /\ cpc \in {"for", "done"} =>
          LET n == Len(Sentences(SubSeq(inLines, 1, idx)))
          IN  /\ Len(f2) = n
              /\ Len(f3) = n
              /\ count = lineBase + 1 + n
    /\ cpc \in {"write_transcription", "write_fileid"} =>
          ~BlankOrComment(inLines[idx])
    /\ (cpc = "done" /\ Sentences(inLines) = << >>) =>
          (f2 = << >> /\ f3 = << >> /\ exitStatus = "ok")

\* three lines, blank ones and a comment, have been converted to nothing
C11_Witness ==
    /\ cpc = "done"
    /\ lineBase = 0
    /\ Len(inLines) = 3
    /\ Sentences(inLines) = << >>
    /\ \E k \in 1..3 : \E j \in 1..Len(inLines[k]) : inLines[k][j] = "#"
    /\ \E k \in 1..3 : \A j \in 1..Len(inLines[k]) : inLines[k][j] # "#"
    /\ f2 = << >>
    /\ f3 = << >>
    /\ exitStatus = "ok"

\* the file objects in a list of open files
FilesIn(files) == { files[k] : k \in 1..Len(files) }

(***************************************************************************)
(* C12.  With an existing path that is no directory as --out-dir, the      *)
(* program never gets past parse_args(): it exits with status 1 there, no  *)
(* output file is ever opened and nothing is ever written.                 *)
(***************************************************************************)
C12_NonDirectoryRejected ==
    out_dir = "file" =>
        /\ cpc \in {"parse_args", "exited"}
        /\ cpc = "exited" => (exitStatus = "exit1" /\ convFailure = "directory")
        /\ FilesIn(open_files) \cap {"f2", "f3"} = {}
        /\ f2 = << >>
        /\ f3 = << >>

\* the program has exited on a non-directory --out-dir
C12_Witness ==
    /\ out_dir = "file"
    /\ cpc = "exited"
    /\ exitStatus = "exit1"
    /\ convFailure = "directory"
    /\ inLines # << >>

(***************************************************************************)
(* C13.  When the program has exited with status 1 because the input could *)
(* not be read or an output file could not be opened or written (a write   *)
(* that fails when the file is flushed at its close included), no file is  *)
(* left in open_files: every file opened so far has been closed.           *)
(***************************************************************************)
C13_ExitClosesFiles ==
    (exitStatus = "exit1" /\ convFailure \in {"open", "read", "write", "close"})
        => open_files = << >>

\* fileids line i carries the id that transcription line t ends with, in
\* parentheses
IdsPair(t, i) ==
    LET id == SubSeq(i, 1, Len(i) - 1)
    IN  /\ Len(i) >= 1
        /\ i[Len(i)] = "\n"
        /\ Len(t) >= Len(id) + 3
        /\ SubSeq(t, Len(t) - Len(id) - 2, Len(t)) = <<"(">> \o id \o <<")", "\n">>

\* the smaller of two numbers
Min(a, b) == IF a <= b THEN a ELSE b

(***************************************************************************)
(* C19 as stated.  At every termination of generate_files, by a normal     *)
(* return or by the exit after a failed write, both outputs hold the same  *)
(* number of lines and the k-th fileids line carries the id of the k-th    *)
(* transcription line.                                                     *)
(***************************************************************************)
C19_OutputsAlwaysMatch ==
    (cpc \in {"done", "exited"} /\ convFailure \in {"none", "write"}) =>
        /\ Len(f2) = Len(f3)
        /\ \A k \in 1..Len(f3) : IdsPair(f2[k], f3[k])

(***************************************************************************)
(* C19 amended.  At every termination the k-th fileids line carries the id *)
(* of the k-th transcription line, for every k both outputs reach; after a *)
(* normal return both outputs hold the same number of lines; after the     *)
(* exit on a failed write the transcription output holds as many lines as  *)
(* the fileids output or one more.                                         *)
(***************************************************************************)
C19_OutputsPairUp ==
    /\ cpc \in {"done", "exited"} =>
          \A k \in 1..Min(Len(f2), Len(f3)) : IdsPair(f2[k], f3[k])
    /\ exitStatus = "ok" => Len(f2) = Len(f3)
    /\ (cpc = "exited" /\ convFailure = "write") =>
          Len(f2) \in {Len(f3), Len(f3) + 1}

\* the write of the second fileids line has failed after the write of the
\* second transcription line
C19_Witness ==
    /\ cpc = "exited"
    /\ convFailure = "write"
    /\ Len(f2) = 2
    /\ Len(f3) = 1

====
